---- MODULE Spec2Model ----
(***************************************************************************)
(* The plan-based workflow orchestrator of pipeline_optimiser:             *)
(* PipelineOrchestrator.run drives a three-node graph                      *)
(*     plan -> decide -> (execute -> decide)* -> END                       *)
(* over one PipelineState dictionary.  The model follows the revision the  *)
(* orchestrator imports (app/components/<name>.py, app/orchestrator/*.py). *)
(*                                                                         *)
(* External collaborators (git fetch, LLM, database) are inputs: each call *)
(* draws its outcome from the set of outcomes the calling code can see.    *)
(*                                                                         *)
(* state["error"] is written by the components but is not a key of the     *)
(* PipelineState schema the graph is built from.  Whether a key outside    *)
(* the schema reaches the next node is decided by the graph library, which *)
(* is not part of the repository; both behaviours are modelled             *)
(* (carriesUndeclared).  The variable error always holds the value of the  *)
(* key in the dictionary the last node returned.                           *)
(***************************************************************************)
EXTENDS Integers, Sequences, FiniteSets, TLC

VARIABLES
    pc,                     \* position of PipelineOrchestrator.run
    pr_create,              \* caller input
    carriesUndeclared,      \* graph runtime hands undeclared keys to the next node
    error,                  \* state["error"] in the dict the last node returned ("" = absent)
    workflow_type,
    risk_level,
    plan,
    plan_index,
    completed_tools,
    execution_log,
    next_action,
    agent_reasoning,
    current_tool,           \* state["_current_tool"]
    post_validation_result, \* "absent", "valid" or "invalid"
    artifacts,              \* tools whose _execute stored its output in the state
    result,                 \* the dictionary run() returns
    lifecycle,              \* start_run / complete_run / fail_run calls attempted
    stageCalls,             \* history: tools whose _execute the loop invoked, in order
    toolResult,             \* history: outcome of each tool's _execute ("none" before)
    lastResponse,           \* history: what the LLM answered in the last decide pass
    lastPersist,            \* history: outcome of the best-effort write of the last step
    errorRaised,            \* history: some EXECUTING pass returned with error set
    oracleCalls,            \* history: plan_index at each call of Decision._execute
    planResult,             \* history: outcomes of ingest and classify in plan_node
    savedArtifacts,         \* history: stages whose artifact repository.save_artifact was asked to store
    \* -- Classifier._execute and BaseService._save_artifact on their own
    workflow,               \* the pipeline content handed to the classifier
    profile,                \* what Classifier._execute left in the state
    content,                \* the value under a service's artifact key
    stored,                 \* the content column of the artifacts row written for it
    \* -- several run() calls on one PipelineOrchestrator
    run_state,              \* per call: position and the state dictionary it built
    heap,                   \* the list objects the state dictionaries refer to
    rows,                   \* rows written through the shared PipelineRepository
    next_id                 \* the runs.id sequence of the database

vars == <<pc, pr_create, carriesUndeclared, error, workflow_type, risk_level,
          plan, plan_index, completed_tools, execution_log, next_action,
          agent_reasoning, current_tool, post_validation_result, artifacts,
          result, lifecycle, stageCalls, toolResult, lastResponse, lastPersist,
          errorRaised, oracleCalls, planResult, savedArtifacts,
          workflow, profile, content, stored, run_state, heap, rows, next_id>>

componentVars == <<workflow, profile, content, stored>>
concurrentVars == <<run_state, heap, rows, next_id>>

Range(s) == {s[i] : i \in 1..Len(s)}

(***************************************************************************)
(* Names (app/constants.py)                                                *)
(***************************************************************************)
ACTION_RUN == "run"
ACTION_SKIP == "skip"
RISK_LEVEL_LOW == "LOW"
RISK_LEVEL_MEDIUM == "MEDIUM"
RISK_LEVEL_HIGH == "HIGH"
WORKFLOW_TYPE_UNKNOWN == "UNKNOWN"

RiskLevels == {RISK_LEVEL_LOW, RISK_LEVEL_MEDIUM, RISK_LEVEL_HIGH}
WorkflowTypes == {"CI", "CD", WORKFLOW_TYPE_UNKNOWN}

\* PipelineOrchestrator.__init__: the tool registry
tools == {"ingest", "validate", "analyse", "risk_assessment",
          "security_scan", "fix", "review", "resolve"}

(***************************************************************************)
(* Classifier._generate_plan                                               *)
(***************************************************************************)
generate_plan_repeats_validate(level, want_pr) ==
    LET base_plan == <<"validate", "analyse", "fix">>
        tail == IF level = RISK_LEVEL_HIGH
                  THEN <<"risk_assessment", "security_scan", "validate">>
                  ELSE IF level = RISK_LEVEL_MEDIUM
                         THEN <<"security_scan", "validate">>
                         ELSE <<"validate">>
    IN  IF want_pr THEN Append(base_plan \o tail, "resolve") ELSE base_plan \o tail

generate_plan(level, want_pr) ==
    LET base_plan == <<"validate", "analyse", "fix">>
        p == IF level = RISK_LEVEL_HIGH
               THEN base_plan \o <<"risk_assessment", "security_scan", "review">>
               ELSE IF level = RISK_LEVEL_MEDIUM
                      THEN base_plan \o <<"security_scan", "review">>
                      ELSE base_plan \o <<"review">>
    IN  IF want_pr THEN Append(p, "resolve") ELSE p

(***************************************************************************)
(* What each tool's _execute can do to the state it is handed:             *)
(*   "ok"    returns without touching state["error"]                       *)
(*   "error" returns after setting state["error"]                          *)
(*   "raise" lets an exception out                                         *)
(***************************************************************************)
\* Ingestor._execute: run() raises on clone/read failure; empty text sets error
Ingestor_execute == {"ok", "error", "raise"}
\* Classifier._execute: only ClassificationError is caught
Classifier_execute == {"ok", "raise"}
\* Validator._execute: every exception becomes valid=False, which sets error
Validator_execute == {"ok", "error"}
\* Analyser._execute: run() wraps every exception in AnalysisError, which sets error
Analyser_execute == {"ok", "error"}
\* Fixer._execute: no fixes, invalid output and every exception set error
Fixer_execute == {"ok", "error"}
\* RiskAssessor._execute: a critical risk sets error; RiskAssessorError is absorbed
RiskAssessor_execute == {"ok", "error"}
\* SecurityScanner._execute: a critical finding sets error; run() is unguarded
SecurityScanner_execute == {"ok", "error", "raise"}
\* Reviewer._execute: every exception is absorbed, error is never set
Reviewer_execute == {"ok"}
\* Resolver._execute: a failed change request sets error
Resolver_execute == {"ok", "error"}

tool_execute(tool_name) ==
    CASE tool_name = "ingest" -> Ingestor_execute
      [] tool_name = "validate" -> Validator_execute
      [] tool_name = "analyse" -> Analyser_execute
      [] tool_name = "fix" -> Fixer_execute
      [] tool_name = "risk_assessment" -> RiskAssessor_execute
      [] tool_name = "security_scan" -> SecurityScanner_execute
      [] tool_name = "review" -> Reviewer_execute
      [] tool_name = "resolve" -> Resolver_execute
      [] OTHER -> {"raise"}

(***************************************************************************)
(* Best-effort persistence.  A write is "none" (not attempted), "ok" or    *)
(* "failed"; each operator gives the state["error"] the caller is left     *)
(* with after the write.                                                   *)
(***************************************************************************)
Writes == {"ok", "failed"}

save_artifact_promotes_failure(err, write) ==
    IF write = "failed" /\ err = "" THEN "persistence" ELSE err

\* BaseService._save_artifact: the except clause logs a warning
save_artifact(err, write) == err

\* Analyser._save_issues_to_db: the except clause logs a warning
save_issues_to_db(err, write) == err

\* Resolver._execute: the except clause around save_pr logs a warning
save_pr(err, write) == err

\* Decision._execute: the except clause around save_decision logs a warning
save_decision(action, write) == action

\* the writes a tool's _execute may attempt, by outcome
tool_writes(tool_name, outcome) ==
    IF outcome = "ok" /\ tool_name \in {"analyse", "resolve"}
      THEN {"none"} \cup Writes
      ELSE {"none"}

tool_write_effect(tool_name, err, write) ==
    IF write = "none" THEN err
    ELSE IF tool_name = "analyse" THEN save_issues_to_db(err, write)
    ELSE save_pr(err, write)

(***************************************************************************)
(* The graph runtime: the value of the undeclared key "error" a node finds *)
(* in the state it is handed.                                              *)
(***************************************************************************)
Seen(err) == IF carriesUndeclared THEN err ELSE ""

(***************************************************************************)
(* BaseService.execute_node: the guarded wrapper around _execute.  Only    *)
(* plan_node goes through it; execute_node of the loop calls _execute.     *)
(* write is the outcome of the artifact write ("none": no artifact key or  *)
(* no content under it).                                                   *)
(***************************************************************************)
BaseService_execute_node(agent_name, completed, err, outcome, write) ==
    IF agent_name \in Range(completed)
      THEN [completed_tools |-> completed, error |-> err, ran |-> FALSE, write |-> "none"]
    ELSE IF err # ""
      THEN [completed_tools |-> completed, error |-> err, ran |-> FALSE, write |-> "none"]
    ELSE IF outcome = "ok"
      THEN [completed_tools |-> Append(completed, agent_name),
            error |-> IF write = "none" THEN err ELSE save_artifact(err, write),
            ran |-> TRUE, write |-> write]
    ELSE \* _execute set state["error"], or raised and the wrapper set it
           [completed_tools |-> completed, error |-> agent_name,
            ran |-> TRUE, write |-> "none"]

(***************************************************************************)
(* Decision.run: what the LLM answered -> the decision                     *)
(*   "run" / "skip"     a well-formed answer                               *)
(*   "invalid_action"   parsed, action is neither run nor skip             *)
(*   "missing_action"   parsed, no action key                              *)
(*   "unparsable"       parse_json_response raises                         *)
(*   "raises"           the client call raises (error, timeout)            *)
(***************************************************************************)
OracleResponses == {"run", "skip", "invalid_action", "missing_action",
                    "unparsable", "raises"}

Decision_run_defaults_to_run(response) ==
    IF response = ACTION_SKIP
      THEN [action |-> ACTION_SKIP, reasoning |-> "llm"]
      ELSE IF response \in {"unparsable", "raises"}
             THEN [action |-> ACTION_RUN, reasoning |-> "Error making decision"]
             ELSE [action |-> ACTION_RUN, reasoning |-> "llm"]

Decision_run(response) ==
    IF response \in {"unparsable", "raises"}
      THEN [action |-> ACTION_SKIP, reasoning |-> "Error making decision"]
    ELSE LET action == IF response = "missing_action" THEN ACTION_RUN ELSE response
         IN  IF action \notin {ACTION_RUN, ACTION_SKIP}
               THEN [action |-> ACTION_RUN, reasoning |-> "llm"]
               ELSE [action |-> action, reasoning |-> "llm"]

\* Decision._execute
Decision_execute(next_tool, response, write) ==
    IF next_tool = ""
      THEN [action |-> ACTION_SKIP, reasoning |-> "No tool specified", write |-> "none"]
      ELSE LET decision == Decision_run(response)
           IN  [action |-> save_decision(decision.action, write),
                reasoning |-> decision.reasoning, write |-> write]

\* nodes.should_continue
should_continue(action) == IF action = "complete" THEN "end" ELSE "continue"

(***************************************************************************)
(* decision_node helper                                                    *)
(***************************************************************************)
plan_complete_one_early(index, planned) == index + 1 >= Len(planned)

\* if state["plan_index"] >= len(state["plan"])
plan_complete(index, planned) == index >= Len(planned)

(***************************************************************************)
(* execute_node helpers                                                    *)
(***************************************************************************)
merge_result_consumes_plan(planned, tool_name, outcome) ==
    IF outcome = "ok" /\ Len(planned) > 0 THEN Tail(planned) ELSE planned

\* for key, value in result.items(): state[key] = value -- result is the state
\* the tool was handed, and no tool's _execute assigns state["plan"]
merge_result(planned, tool_name, outcome) == planned

next_plan_index_skips_slot(index, outcome) ==
    IF outcome = "skip" THEN index + 2 ELSE index + 1

completed_after_resets_on_failure(completed, tool_name, outcome) ==
    IF outcome \in {"error", "raise"} THEN <<>>
    ELSE IF outcome = "ok" /\ tool_name \notin Range(completed)
      THEN Append(completed, tool_name)
      ELSE completed

next_plan_index_kept_on_raise(index, outcome) ==
    IF outcome = "raise" THEN index ELSE index + 1

\* state["plan_index"] += 1 on the skip path and after the try block
next_plan_index(index, outcome) == index + 1

completed_after_marks_skipped(completed, tool_name, outcome) ==
    IF outcome # "raise" /\ tool_name \notin Range(completed)
      THEN Append(completed, tool_name)
      ELSE completed

\* completed_tools.append(tool_name) whenever _execute returned
completed_after(completed, tool_name, outcome) ==
    IF outcome \in {"ok", "error"} /\ tool_name \notin Range(completed)
      THEN Append(completed, tool_name)
      ELSE completed

\* whether _execute stored the tool's output key in the state before returning
tool_stores(tool_name, outcome, write) ==
    CASE tool_name \in {"validate", "risk_assessment", "security_scan"} ->
             outcome \in {"ok", "error"}
      [] tool_name \in {"analyse", "fix", "review"} -> outcome = "ok"
      [] tool_name = "resolve" -> outcome = "ok" /\ write # "none"
      [] OTHER -> FALSE

\* the entry appended to execution_log
log_entry(tool_name, outcome) ==
    [tool |-> tool_name,
     entry |-> CASE outcome = "skip" -> "skipped"
                 [] outcome = "raise" -> "FAILED"
                 [] OTHER -> "completed"]

NoResult == [success |-> FALSE, correlation_id |-> "", error |-> "",
             workflow_type |-> "", risk_level |-> "", completed_tools |-> <<>>]

(***************************************************************************)
(* Classifier._execute on its own.  A workflow is the pipeline content as  *)
(* the classifier sees it:                                                 *)
(*   kind      "empty", "not_text", "blank"  rejected before parsing       *)
(*             "yaml_error"                  yaml.safe_load raises         *)
(*             "not_mapping"                 parses to None, a list, ...   *)
(*             "mapping"                     a mapping with a jobs mapping *)
(*             "malformed"                   a mapping whose jobs value is *)
(*                                           no mapping (jobs.items fails) *)
(*   detected  what _detect_workflow_type finds in the triggers            *)
(*   prod_jobs jobs whose name/env/environment names production, deploy... *)
(*   cloud, iac, secret, db, container                                     *)
(*             steps matching each keyword group (a step can match several)*)
(***************************************************************************)
MaxJobs == 2
MaxHits == 1

DefaultKinds == {"empty", "not_text", "blank", "yaml_error", "not_mapping"}

NoFindings == [detected |-> WORKFLOW_TYPE_UNKNOWN, prod_jobs |-> 0, cloud |-> 0,
               iac |-> 0, secret |-> 0, db |-> 0, container |-> 0]

Workflows ==
    {[kind |-> k] @@ NoFindings : k \in DefaultKinds \cup {"malformed"}}
    \cup {[kind |-> "mapping", detected |-> t, prod_jobs |-> j, cloud |-> c,
           iac |-> i, secret |-> x, db |-> d, container |-> o] :
             t \in WorkflowTypes, j \in 0..MaxJobs, c \in 0..MaxHits,
             i \in 0..MaxHits, x \in 0..MaxHits, d \in 0..MaxHits,
             o \in 0..MaxHits}

\* Classifier._calculate_risk_level: the score accumulated over jobs and steps
risk_score(w) ==
    30 * w.prod_jobs + 20 * w.cloud + 25 * w.iac + 10 * w.secret
      + 15 * w.db + 5 * w.container

calculate_risk_level_strict(score) ==
    IF score > 50 THEN RISK_LEVEL_HIGH
    ELSE IF score > 20 THEN RISK_LEVEL_MEDIUM
    ELSE RISK_LEVEL_LOW

\* Classifier._calculate_risk_level: the level for a score
calculate_risk_level(score) ==
    IF score >= 50 THEN RISK_LEVEL_HIGH
    ELSE IF score >= 20 THEN RISK_LEVEL_MEDIUM
    ELSE RISK_LEVEL_LOW

get_default_profile_low ==
    [workflow_type |-> WORKFLOW_TYPE_UNKNOWN, risk_level |-> RISK_LEVEL_LOW]

\* Classifier._get_default_profile
get_default_profile ==
    [workflow_type |-> WORKFLOW_TYPE_UNKNOWN, risk_level |-> RISK_LEVEL_MEDIUM]

\* Classifier._classify, for content it returns a profile for
Classifier_classify(w) ==
    IF w.kind \in DefaultKinds THEN get_default_profile
    ELSE [workflow_type |-> w.detected,
          risk_level |-> calculate_risk_level(risk_score(w))]

NoProfile == [outcome |-> "none", workflow_type |-> WORKFLOW_TYPE_UNKNOWN,
              risk_level |-> RISK_LEVEL_MEDIUM, plan |-> <<>>]

\* Classifier._execute: what it leaves in a state run() initialised.  For a
\* malformed mapping jobs.items() raises inside _classify, which the
\* except ClassificationError clause does not catch.
Classifier_run(w, want_pr) ==
    IF w.kind = "malformed"
      THEN [NoProfile EXCEPT !.outcome = "raise"]
      ELSE LET classified == Classifier_classify(w)
           IN  [outcome |-> "ok",
                workflow_type |-> classified.workflow_type,
                risk_level |-> classified.risk_level,
                plan |-> generate_plan(classified.risk_level, want_pr)]

(***************************************************************************)
(* BaseService._save_artifact on its own.  A content is a Python value:    *)
(*   type  "str", "dict" or "list"                                         *)
(*   items the text (str), key and value (dict), the elements (list);      *)
(*         no items is the empty string, the empty dict, the empty list    *)
(* What reaches the content column of the artifacts table is text.         *)
(***************************************************************************)
Contents ==
    {[type |-> "str", items |-> <<"name: ci">>],
     [type |-> "str", items |-> <<"['a']">>],
     [type |-> "str", items |-> <<>>],
     [type |-> "dict", items |-> <<"valid", "yes">>],
     [type |-> "dict", items |-> <<>>],
     [type |-> "list", items |-> <<"a">>],
     [type |-> "list", items |-> <<>>]}

Pending == [type |-> "pending", items |-> <<>>]
NotStored == [type |-> "none", items |-> <<>>]

\* json.dumps(content, indent=2, ensure_ascii=False) of a one-key dict
json_dumps(items) == "{\n  \"" \o items[1] \o "\": \"" \o items[2] \o "\"\n}"

\* str(content) of a one-element list of strings
py_str(items) == "['" \o items[1] \o "']"

\* BaseService._save_artifact: the text handed to repository.save_artifact
artifact_text(value) ==
    IF value.type = "dict" THEN json_dumps(value.items)
    ELSE IF value.type # "str" THEN py_str(value.items)
    ELSE value.items[1]

\* BaseService._save_artifact followed by db.insert_artifact
BaseService_save_artifact(value, write) ==
    IF value.items = <<>> THEN NotStored
    ELSE IF write = "failed" THEN NotStored
    ELSE [type |-> "str", items |-> <<artifact_text(value)>>]

ComponentIdle ==
    /\ workflow = [kind |-> "empty"] @@ NoFindings
    /\ profile = NoProfile
    /\ content = [type |-> "str", items |-> <<>>]
    /\ stored = Pending

(***************************************************************************)
(* Several run() calls on one PipelineOrchestrator.  Each call builds its  *)
(* own state dictionary; the lists in it are objects on the heap, named by *)
(* address.  The tool registry, the graph and the repository are shared;   *)
(* no component assigns an attribute of itself outside __init__.           *)
(***************************************************************************)
NumRuns == 2
Runs == 1..NumRuns
ListKeys == {"completed_tools", "execution_log"}
Addresses == (0..NumRuns) \X ListKeys

new_list_shared(r, key) == <<0, key>>

\* run(): "completed_tools": [], "execution_log": [] -- a list display
\* evaluates to a new object in every call
new_list(r, key) == <<r, key>>

IdleRun == [pc |-> "idle", run_id |-> 0, plan |-> <<>>, plan_index |-> 0,
            next_action |-> "", completed_tools |-> <<0, "completed_tools">>,
            execution_log |-> <<0, "execution_log">>]

ConcurrentIdle ==
    /\ run_state = [r \in Runs |-> IdleRun]
    /\ heap = [a \in Addresses |-> <<>>]
    /\ rows = {}
    /\ next_id = 1

\* a row as the repository writes it: every insert and update carries run_id
Row(table, id, stage) == [table |-> table, run_id |-> id, stage |-> stage]

(***************************************************************************)
(* Initial state: run() has been called; initial_state as run() builds it  *)
(***************************************************************************)
RunInit ==
    /\ pc = "start"
    /\ pr_create \in BOOLEAN
    /\ carriesUndeclared \in BOOLEAN
    /\ error = ""
    /\ workflow_type = WORKFLOW_TYPE_UNKNOWN
    /\ risk_level = RISK_LEVEL_MEDIUM
    /\ plan = <<>>
    /\ plan_index = 0
    /\ completed_tools = <<>>
    /\ execution_log = <<>>
    /\ next_action = ""
    /\ agent_reasoning = ""
    /\ current_tool = ""
    /\ post_validation_result = "absent"
    /\ artifacts = {}
    /\ result = NoResult
    /\ lifecycle = <<>>
    /\ stageCalls = <<>>
    /\ toolResult = [t \in tools \ {"ingest"} |-> "none"]
    /\ lastResponse = "none"
    /\ lastPersist = "none"
    /\ errorRaised = FALSE
    /\ oracleCalls = <<>>
    /\ planResult = [ingest |-> "none", classify |-> "none"]
    /\ savedArtifacts = {}

Init == RunInit /\ ComponentIdle /\ ConcurrentIdle

stateVars == <<error, workflow_type, risk_level, plan, plan_index, completed_tools,
               execution_log, next_action, agent_reasoning, current_tool,
               post_validation_result, artifacts>>
historyVars == <<stageCalls, toolResult, lastResponse, lastPersist, errorRaised,
                 oracleCalls, planResult, savedArtifacts>>

(***************************************************************************)
(* PipelineOrchestrator.run: start_run, outside the try block              *)
(***************************************************************************)
start_run ==
    /\ pc = "start"
    /\ lifecycle' = Append(lifecycle, "start_run")
    /\ \E ok \in BOOLEAN : pc' = IF ok THEN "plan" ELSE "escaped"
    /\ UNCHANGED <<pr_create, carriesUndeclared, stateVars, result, historyVars>>
    /\ UNCHANGED <<componentVars, concurrentVars>>

(***************************************************************************)
(* nodes.plan_node                                                         *)
(***************************************************************************)
plan_node ==
    /\ pc = "plan"
    /\ \E i \in Ingestor_execute, w \in Writes, c \in Classifier_execute,
          level \in RiskLevels, wtype \in WorkflowTypes :
          LET ing == BaseService_execute_node("ingest", completed_tools, Seen(error), i, w)
              cls == BaseService_execute_node("classify", ing.completed_tools,
                                              ing.error, c, "none")
          IN  IF ing.error # ""
                THEN /\ error' = ing.error
                     /\ completed_tools' = ing.completed_tools
                     /\ lastPersist' = ing.write
                     /\ artifacts' = IF i = "raise" THEN artifacts
                                                    ELSE artifacts \cup {"ingest"}
                     /\ planResult' = [ingest |-> IF ing.ran THEN i ELSE "none",
                                       classify |-> "none"]
                     /\ savedArtifacts' = savedArtifacts
                     /\ UNCHANGED <<workflow_type, risk_level, plan, plan_index>>
                ELSE /\ error' = cls.error
                     /\ completed_tools' = cls.completed_tools
                     /\ lastPersist' = ing.write
                     /\ artifacts' = artifacts \cup {"ingest"}
                     /\ planResult' = [ingest |-> IF ing.ran THEN i ELSE "none",
                                       classify |-> IF cls.ran THEN c ELSE "none"]
                     /\ savedArtifacts' = IF ing.write = "none"
                                            THEN savedArtifacts
                                            ELSE savedArtifacts \cup {"ingest"}
                     /\ IF c = "ok"
                          THEN /\ workflow_type' = wtype
                               /\ risk_level' = level
                               /\ plan' = generate_plan(level, pr_create)
                               /\ plan_index' = 0
                          ELSE UNCHANGED <<workflow_type, risk_level, plan, plan_index>>
    /\ pc' = "decide"
    /\ UNCHANGED <<pr_create, carriesUndeclared, execution_log, next_action,
                   agent_reasoning, current_tool, post_validation_result, result,
                   lifecycle, stageCalls, toolResult, lastResponse, errorRaised,
                   oracleCalls, componentVars, concurrentVars>>

(***************************************************************************)
(* nodes.decision_node followed by the conditional edge should_continue    *)
(***************************************************************************)
decision_node ==
    /\ pc = "decide"
    /\ error' = Seen(error)
    /\ IF Seen(error) # ""
         THEN /\ next_action' = "complete"
              /\ agent_reasoning' = "Workflow stopped due to error"
              /\ UNCHANGED <<current_tool, oracleCalls>>
              /\ lastResponse' = "none"
              /\ lastPersist' = "none"
       ELSE IF post_validation_result = "invalid"
         THEN /\ next_action' = "complete"
              /\ agent_reasoning' = "Post-validation failed"
              /\ UNCHANGED <<current_tool, oracleCalls>>
              /\ lastResponse' = "none"
              /\ lastPersist' = "none"
       ELSE IF plan_complete(plan_index, plan)
         THEN /\ next_action' = "complete"
              /\ agent_reasoning' = "All planned tools executed"
              /\ UNCHANGED <<current_tool, oracleCalls>>
              /\ lastResponse' = "none"
              /\ lastPersist' = "none"
       ELSE \E response \in OracleResponses, w \in Writes :
              LET next_tool == plan[plan_index + 1]
                  d == Decision_execute(next_tool, response, w)
              IN  /\ current_tool' = next_tool
                  /\ next_action' = d.action
                  /\ agent_reasoning' = d.reasoning
                  /\ lastResponse' = response
                  /\ lastPersist' = d.write
                  /\ oracleCalls' = Append(oracleCalls, plan_index)
    /\ pc' = IF should_continue(next_action') = "end" THEN "finish" ELSE "execute"
    /\ UNCHANGED <<pr_create, carriesUndeclared, workflow_type, risk_level, plan,
                   plan_index, completed_tools, execution_log,
                   post_validation_result, artifacts, result, lifecycle, stageCalls,
                   toolResult, errorRaised, planResult, savedArtifacts,
                   componentVars, concurrentVars>>

(***************************************************************************)
(* nodes.execute_node                                                      *)
(***************************************************************************)
execute_node ==
    /\ pc = "execute"
    /\ \/ /\ next_action = "skip"
          /\ execution_log' = Append(execution_log, log_entry(current_tool, "skip"))
          /\ plan_index' = next_plan_index(plan_index, "skip")
          /\ completed_tools' = completed_after(completed_tools, current_tool, "skip")
          /\ error' = Seen(error)
          /\ lastPersist' = "none"
          /\ plan' = plan
          /\ UNCHANGED <<stageCalls, toolResult, errorRaised, artifacts>>
       \/ /\ next_action # "skip"
          /\ \E outcome \in tool_execute(current_tool) :
             \E write \in tool_writes(current_tool, outcome) :
                /\ stageCalls' = Append(stageCalls, current_tool)
                /\ toolResult' = [toolResult EXCEPT ![current_tool] = outcome]
                /\ error' = IF outcome = "error"
                              THEN current_tool
                              ELSE tool_write_effect(current_tool, Seen(error), write)
                /\ completed_tools' = completed_after(completed_tools, current_tool, outcome)
                /\ execution_log' = Append(execution_log, log_entry(current_tool, outcome))
                /\ plan_index' = next_plan_index(plan_index, outcome)
                /\ plan' = merge_result(plan, current_tool, outcome)
                /\ lastPersist' = write
                /\ artifacts' = IF tool_stores(current_tool, outcome, write)
                                  THEN artifacts \cup {current_tool}
                                  ELSE artifacts
                /\ errorRaised' = (errorRaised \/ error' # "")
    /\ pc' = "decide"
    /\ UNCHANGED <<pr_create, carriesUndeclared, workflow_type, risk_level,
                   next_action, agent_reasoning, current_tool,
                   post_validation_result, result, lifecycle, lastResponse,
                   oracleCalls, planResult, savedArtifacts,
                   componentVars, concurrentVars>>

(***************************************************************************)
(* PipelineOrchestrator.run after graph.invoke returned: complete_run and  *)
(* the success result, or the except clause                                *)
(***************************************************************************)
complete_run ==
    /\ pc = "finish"
    /\ lifecycle' = Append(lifecycle, "complete_run")
    /\ \E ok \in BOOLEAN :
          IF ok
            THEN /\ pc' = "returned"
                 /\ result' = [success |-> TRUE, correlation_id |-> "cid", error |-> "",
                               workflow_type |-> workflow_type,
                               risk_level |-> risk_level,
                               completed_tools |-> completed_tools]
            ELSE /\ pc' = "except"
                 /\ UNCHANGED result
    /\ UNCHANGED <<pr_create, carriesUndeclared, stateVars, historyVars>>
    /\ UNCHANGED <<componentVars, concurrentVars>>

fail_run ==
    /\ pc = "except"
    /\ lifecycle' = Append(lifecycle, "fail_run")
    /\ \E ok \in BOOLEAN :
          IF ok
            THEN /\ pc' = "returned"
                 /\ result' = [NoResult EXCEPT !.correlation_id = "cid",
                                               !.error = "complete_run failed"]
            ELSE /\ pc' = "escaped"
                 /\ UNCHANGED result
    /\ UNCHANGED <<pr_create, carriesUndeclared, stateVars, historyVars>>
    /\ UNCHANGED <<componentVars, concurrentVars>>

Next ==
    \/ start_run
    \/ plan_node
    \/ decision_node
    \/ execute_node
    \/ complete_run
    \/ fail_run

Spec == Init /\ [][Next]_vars

\* the loop under the scheduling of graph.invoke: a node that can run, runs
FairSpec == Spec /\ WF_vars(Next)

(***************************************************************************)
(* Classifier._execute and BaseService._save_artifact applied to inputs    *)
(***************************************************************************)
ComponentInit ==
    /\ RunInit
    /\ carriesUndeclared = FALSE
    /\ ConcurrentIdle
    /\ workflow \in Workflows
    /\ profile = NoProfile
    /\ content \in Contents
    /\ stored = Pending

classify_step ==
    /\ profile.outcome = "none"
    /\ profile' = Classifier_run(workflow, pr_create)
    /\ UNCHANGED <<workflow, content, stored>>
    /\ UNCHANGED <<pc, pr_create, carriesUndeclared, stateVars, result, lifecycle,
                   historyVars, concurrentVars>>

save_artifact_step ==
    /\ stored = Pending
    /\ \E write \in Writes : stored' = BaseService_save_artifact(content, write)
    /\ UNCHANGED <<workflow, profile, content>>
    /\ UNCHANGED <<pc, pr_create, carriesUndeclared, stateVars, result, lifecycle,
                   historyVars, concurrentVars>>

ComponentNext == classify_step \/ save_artifact_step

ComponentSpec == ComponentInit /\ [][ComponentNext]_vars

(***************************************************************************)
(* Concurrent run() calls: each step is one node (or lifecycle call) of    *)
(* one call; the calls interleave freely.                                  *)
(***************************************************************************)
List(r, key) == heap[run_state[r][key]]

\* the oracle's answers are inputs; in these runs it answers as its prompt
\* asks: run for validate and analyse, run or skip for the other tools
HarnessResponses(tool_name) ==
    IF tool_name \in {"validate", "analyse"} THEN {ACTION_RUN}
                                            ELSE {ACTION_RUN, ACTION_SKIP}

run_start(r) ==
    /\ run_state[r].pc = "idle"
    /\ \E ok \in BOOLEAN :
          IF ok
            THEN /\ run_state' = [run_state EXCEPT ![r] =
                       [IdleRun EXCEPT !.pc = "plan", !.run_id = next_id,
                                       !.completed_tools = new_list(r, "completed_tools"),
                                       !.execution_log = new_list(r, "execution_log")]]
                 /\ next_id' = next_id + 1
                 /\ rows' = rows \cup {Row("runs", next_id, "")}
            ELSE /\ run_state' = [run_state EXCEPT ![r].pc = "escaped"]
                 /\ UNCHANGED <<next_id, rows>>
    /\ UNCHANGED heap

run_plan(r) ==
    /\ run_state[r].pc = "plan"
    /\ run_state' = [run_state EXCEPT
                       ![r].pc = "decide",
                       ![r].plan = generate_plan(RISK_LEVEL_LOW, FALSE)]
    /\ heap' = [heap EXCEPT ![run_state[r].completed_tools] =
                               @ \o <<"ingest", "classify">>]
    /\ rows' = rows \cup {Row("artifacts", run_state[r].run_id, "ingest")}
    /\ UNCHANGED next_id

run_decide(r) ==
    /\ run_state[r].pc = "decide"
    /\ IF plan_complete(run_state[r].plan_index, run_state[r].plan)
         THEN /\ run_state' = [run_state EXCEPT ![r].pc = "finish",
                                                ![r].next_action = "complete"]
              /\ UNCHANGED rows
         ELSE \E response \in HarnessResponses(run_state[r].plan[run_state[r].plan_index + 1]) :
                /\ run_state' = [run_state EXCEPT
                                   ![r].pc = "execute",
                                   ![r].next_action = Decision_run(response).action]
                /\ rows' = rows \cup
                     {Row("decisions", run_state[r].run_id,
                          run_state[r].plan[run_state[r].plan_index + 1])}
    /\ UNCHANGED <<heap, next_id>>

run_execute(r) ==
    /\ run_state[r].pc = "execute"
    /\ LET tool_name == run_state[r].plan[run_state[r].plan_index + 1]
           outcome == IF run_state[r].next_action = ACTION_SKIP THEN "skip" ELSE "ok"
       IN  /\ heap' = [heap EXCEPT
                         ![run_state[r].completed_tools] =
                             completed_after(@, tool_name, outcome),
                         ![run_state[r].execution_log] =
                             Append(@, log_entry(tool_name, outcome))]
           /\ run_state' = [run_state EXCEPT
                              ![r].pc = "decide",
                              ![r].plan_index = next_plan_index(@, outcome)]
    /\ UNCHANGED <<rows, next_id>>

run_complete(r) ==
    /\ run_state[r].pc = "finish"
    /\ run_state' = [run_state EXCEPT ![r].pc = "returned"]
    /\ rows' = rows \cup {Row("runs", run_state[r].run_id, "completed")}
    /\ UNCHANGED <<heap, next_id>>

ConcurrentNext ==
    /\ \E r \in Runs :
          \/ run_start(r)
          \/ run_plan(r)
          \/ run_decide(r)
          \/ run_execute(r)
          \/ run_complete(r)
    /\ UNCHANGED <<pc, pr_create, carriesUndeclared, stateVars, result, lifecycle,
                   historyVars, componentVars>>

ConcurrentInit ==
    /\ RunInit
    /\ pr_create = FALSE
    /\ carriesUndeclared = FALSE
    /\ ComponentIdle
    /\ ConcurrentIdle

ConcurrentSpec == ConcurrentInit /\ [][ConcurrentNext]_vars

TypeOK ==
    /\ pc \in {"start", "plan", "decide", "execute", "finish", "except",
               "returned", "escaped"}
    /\ plan_index \in 0..Len(plan)
    /\ next_action \in {"", ACTION_RUN, ACTION_SKIP, "complete"}
    /\ Range(stageCalls) \subseteq tools

(***************************************************************************)
(* Properties                                                              *)
(***************************************************************************)
NoDuplicates(seq) == \A i, j \in 1..Len(seq) : seq[i] = seq[j] => i = j
Entries == {execution_log[i].entry : i \in 1..Len(execution_log)}
LoopTools == DOMAIN toolResult

\* C1: every EXECUTING pass (skip, success, error set, exception) adds exactly 1
\* to plan_index; no step after PLANNING changes it otherwise; it never decreases.
C1_PlanIndexStepsByOne ==
    [][ /\ pc = "execute" => plan_index' = plan_index + 1
        /\ pc \notin {"execute", "plan"} => plan_index' = plan_index
        /\ plan_index' >= plan_index ]_vars

\* C1 witness: a run whose passes were a skip, a success, an exception and a
\* reported error, with one slot consumed per pass.
C1_Witness ==
    /\ pc = "decide"
    /\ Entries = {"skipped", "completed", "FAILED"}
    /\ \E t \in LoopTools : toolResult[t] = "error"
    /\ plan_index = Len(execution_log)

\* C2 (as claimed): a tool of the plan is in completed_tools only if its
\* execution returned without setting error and without raising.
C2_CompletedOnlyIfSucceeded ==
    \A t \in Range(completed_tools) : t \in LoopTools => toolResult[t] = "ok"

\* C3 (as claimed): once an EXECUTING pass has returned with error set, no
\* tool is invoked in any later pass.
C3_NoStageAfterError ==
    [][ errorRaised => stageCalls' = stageCalls ]_vars

C5_FailedRunReportsFailure ==
    pc = "returned" =>
        /\ error # "" => (~result.success /\ result.error = error)
        /\ (\E t \in LoopTools : toolResult[t] \in {"error", "raise"}) => ~result.success

C7_SkipFrame ==
    [][ (pc = "execute" /\ next_action = ACTION_SKIP) =>
          /\ execution_log' = Append(execution_log,
                                     [tool |-> current_tool, entry |-> "skipped"])
          /\ plan_index' = plan_index + 1
          /\ stageCalls' = stageCalls
          /\ lastPersist' = "none"
          /\ UNCHANGED <<error, workflow_type, risk_level, plan, completed_tools,
                         next_action, agent_reasoning, current_tool,
                         post_validation_result, artifacts, toolResult,
                         result, pr_create>> ]_vars

\* C7 witness: a skip pass has just been executed after some tool completed.
C7_Witness ==
    /\ pc = "decide"
    /\ next_action = ACTION_SKIP
    /\ Len(execution_log) > 1
    /\ execution_log[Len(execution_log)].entry = "skipped"
    /\ current_tool \notin Range(completed_tools)
    /\ current_tool \notin artifacts

C9_PersistenceFailureIsHarmless ==
    [][ lastPersist' = "failed" =>
          /\ pc = "plan" =>
                /\ "ingest" \in Range(completed_tools')
                /\ \/ error' = ""
                   \/ error' = "classify" /\ "classify" \notin Range(completed_tools')
                /\ pc' = "decide"
          /\ pc = "decide" =>
                /\ error' = ""
                /\ next_action' = ACTION_SKIP <=>
                       lastResponse' \in {"skip", "raises", "unparsable"}
                /\ next_action' \in {ACTION_RUN, ACTION_SKIP}
                /\ pc' = "execute"
          /\ pc = "execute" =>
                /\ error = "" /\ error' = ""
                /\ toolResult'[current_tool] = "ok"
                /\ current_tool \in Range(completed_tools')
                /\ pc' = "decide" ]_vars

\* C9 witness: the issues write of a successful analyse failed.
C9_Witness ==
    /\ pc = "decide"
    /\ lastPersist = "failed"
    /\ current_tool = "analyse"
    /\ next_action = ACTION_RUN
    /\ toolResult["analyse"] = "ok"
    /\ error = ""

\* C10 (as claimed): run never lets an exception out to its caller.
C10_RunNeverRaises == pc # "escaped"

IsPrefix(s, t) == Len(s) <= Len(t) /\ \A i \in 1..Len(s) : s[i] = t[i]
IngestFailed == planResult.ingest \in {"error", "raise"}
SkipEntries == {i \in 1..Len(execution_log) : execution_log[i].entry = "skipped"}

\* C11 (as claimed): when ingest fails (fetch raised, or file missing/empty)
\* the classifier, the decision oracle and every tool of a plan are never
\* invoked, and the run returns success = FALSE.
C11_IngestFailureEndsRunAsFailed ==
    IngestFailed =>
        /\ planResult.classify = "none"
        /\ oracleCalls = <<>>
        /\ stageCalls = <<>>
        /\ pc = "returned" => ~result.success

\* C12 (as claimed): once error is non-empty no later step clears or removes
\* it; it keeps its value across DECIDING and EXECUTING passes.
C12_ErrorIsSticky ==
    [][ error # "" => error' = error ]_vars

\* C13: an EXECUTING pass whose tool failed keeps every earlier tool's stored
\* output, outcome and completed_tools entry, and the classification and the
\* plan; over the whole run completed_tools only grows by appending.
C13_FailureKeepsEarlierOutputs ==
    [][ /\ IsPrefix(completed_tools, completed_tools')
        /\ (pc = "execute" /\ toolResult'[current_tool] \in {"error", "raise"}
              /\ toolResult[current_tool] = "none") =>
              /\ artifacts \subseteq artifacts'
              /\ \A t \in LoopTools \ {current_tool} : toolResult'[t] = toolResult[t]
              /\ UNCHANGED <<workflow_type, risk_level, plan>> ]_vars

\* C13 witness: security_scan raised after validate and analyse had completed
\* and stored their outputs.
C13_Witness ==
    /\ pc = "decide"
    /\ current_tool = "security_scan"
    /\ toolResult["security_scan"] = "raise"
    /\ {"validate", "analyse"} \subseteq Range(completed_tools)
    /\ {"validate", "analyse"} \subseteq artifacts

C15_OracleOncePerSlot == NoDuplicates(oracleCalls)

\* C15 witness: the oracle is being obeyed for a third slot, after a pass in
\* which the tool raised.
C15_Witness ==
    /\ pc = "execute"
    /\ Len(oracleCalls) >= 3
    /\ "FAILED" \in Entries

\* C16: after plan_node no step changes plan.
C16_PlanFixedAfterPlanning ==
    [][ pc # "plan" => plan' = plan ]_vars

\* C16 witness: the loop ended after at least three tools ran successfully
\* and the plan is still the one the classifier generated.
C16_Witness ==
    /\ pc = "finish"
    /\ Cardinality({t \in LoopTools : toolResult[t] = "ok"}) >= 3
    /\ plan = generate_plan(risk_level, pr_create)

\* C17: 0 <= plan_index <= Len(plan) in every state, and a tool is selected
\* for execution only for a plan_index below Len(plan), as plan[plan_index].
C17_PlanIndexInBounds ==
    /\ plan_index \in 0..Len(plan)
    /\ pc = "execute" => (plan_index < Len(plan) /\ current_tool = plan[plan_index + 1])

\* C17 witness: the index reached the end of a non-empty plan whose last slot
\* was skipped.
C17_Witness ==
    /\ pc = "decide"
    /\ Len(plan) > 0
    /\ plan_index = Len(plan)
    /\ next_action = ACTION_SKIP

\* C18 (as claimed): every EXECUTING pass appends exactly one entry for the
\* current tool, keeping the earlier ones: a skip entry when skipped, a
\* completion entry only when the tool finished without setting error, a
\* failure entry when the tool failed.
C18_LogEntryReflectsOutcome ==
    [][ pc = "execute" =>
          /\ Len(execution_log') = Len(execution_log) + 1
          /\ IsPrefix(execution_log, execution_log')
          /\ LET e == execution_log'[Len(execution_log')]
             IN  /\ e.tool = current_tool
                 /\ next_action = ACTION_SKIP => e.entry = "skipped"
                 /\ next_action # ACTION_SKIP =>
                      /\ e.entry = "completed" <=> toolResult'[current_tool] = "ok"
                      /\ e.entry = "FAILED" <=>
                            toolResult'[current_tool] \in {"error", "raise"} ]_vars

\* The scenario of C19: plan [validate, analyse, fix, review] walked to its
\* end, validate, analyse and review succeeded, fix was skipped.
C19_Scenario ==
    /\ pc = "finish"
    /\ plan = <<"validate", "analyse", "fix", "review">>
    /\ toolResult["validate"] = "ok"
    /\ toolResult["analyse"] = "ok"
    /\ toolResult["fix"] = "none"
    /\ toolResult["review"] = "ok"

\* C19 (as claimed): in the scenario completed_tools is exactly {validate,
\* analyse, review} and execution_log has exactly 4 entries, exactly one of
\* them a skip entry, for fix.
C19_CompletedIsPlanStagesOnly ==
    C19_Scenario =>
        /\ Range(completed_tools) = {"validate", "analyse", "review"}
        /\ Len(execution_log) = 4
        /\ SkipEntries = {3} /\ execution_log[3].tool = "fix"

\* C19 (amended): in the scenario completed_tools is ingest and classify, the
\* two planning stages, followed by validate, analyse, review, without fix;
\* execution_log has exactly 4 entries, exactly one of them a skip entry, for fix.
C19_CompletedIsPlanningThenPlanStages ==
    C19_Scenario =>
        /\ completed_tools = <<"ingest", "classify", "validate", "analyse", "review">>
        /\ Len(execution_log) = 4
        /\ SkipEntries = {3} /\ execution_log[3].tool = "fix"

\* C19 witness: the scenario, ended by the DECIDING pass that answers complete.
C19_Witness ==
    /\ C19_Scenario
    /\ next_action = "complete"
    /\ stageCalls = <<"validate", "analyse", "review">>

\* C20 (as claimed): the result returned for a failed run (success = FALSE, or
\* a run in which error was set or a tool failed) carries the completed_tools
\* accumulated before the failure.
C20_FailedRunReportsCompleted ==
    (/\ pc = "returned"
     /\ \/ ~result.success
        \/ error # ""
        \/ \E t \in LoopTools : toolResult[t] \in {"error", "raise"})
        => result.completed_tools = completed_tools

\* the components' _get_artifact_key: which tools name a state key to persist
declares_artifact(tool_name) ==
    tool_name \in {"ingest", "validate", "analyse", "fix", "risk_assessment",
                   "security_scan", "review"}

RunFailed ==
    \/ IngestFailed
    \/ planResult.classify = "raise"
    \/ errorRaised

Terminal == SelectSeq(lifecycle, LAMBDA c : c \in {"complete_run", "fail_run"})
Started(q) == run_state[q].pc \notin {"idle", "escaped"}
View(q) == <<List(q, "completed_tools"), List(q, "execution_log")>>
ExpectedPlan(level, want_pr) ==
    <<"validate", "analyse", "fix">>
      \o (CASE level = "HIGH" -> <<"risk_assessment", "security_scan", "review">>
            [] level = "MEDIUM" -> <<"security_scan", "review">>
            [] level = "LOW" -> <<"review">>)
      \o (IF want_pr THEN <<"resolve">> ELSE <<>>)

\* C21 (as claimed): when the next DECIDING pass starts, every tool the loop
\* ran that completed successfully, declares an artifact key and stored
\* content under it has had its artifact handed to repository.save_artifact.
C21_ArtifactPersistedAfterStage ==
    pc = "decide" =>
        \A t \in LoopTools :
            (toolResult[t] = "ok" /\ declares_artifact(t) /\ t \in artifacts)
                => t \in savedArtifacts

\* C22 (as claimed): when the loop reaches the slot of validate or analyse
\* with error empty, the action recorded for the slot is run.
C22_MandatoryNeverSkipped ==
    (pc = "execute" /\ current_tool \in {"validate", "analyse"} /\ error = "")
        => next_action = ACTION_RUN

\* C23 (as claimed): an oracle call changes nothing but next_action and
\* agent_reasoning: it writes no repository row and leaves the plan, the
\* index, the completion list, the log and the stored outputs alone.
C23_OracleCallOnlySetsDecision ==
    [][ (pc = "decide" /\ oracleCalls' # oracleCalls) =>
          /\ lastPersist' # "ok"
          /\ UNCHANGED <<plan, plan_index, completed_tools, execution_log,
                         artifacts, workflow_type, risk_level,
                         post_validation_result>> ]_vars

C25_PlanByRiskLevel ==
    planResult.classify = "ok" =>
        /\ plan = ExpectedPlan(risk_level, pr_create)
        /\ "resolve" \in Range(plan) <=> pr_create
        /\ pr_create => plan[Len(plan)] = "resolve"

\* C25 witness: a HIGH risk classification with a change request asked for.
C25_Witness ==
    /\ pc = "decide"
    /\ planResult.classify = "ok"
    /\ risk_level = RISK_LEVEL_HIGH
    /\ pr_create
    /\ plan_index = 0

\* C26: for empty, non-text, blank, unparsable or non-mapping content the
\* classifier does not raise and leaves workflow_type UNKNOWN, risk_level
\* MEDIUM and the plan validate, analyse, fix, security_scan, review (then
\* resolve when pr_create is set), which is not empty.
C26_DefaultProfileOnBadContent ==
    (profile.outcome # "none" /\ workflow.kind \in DefaultKinds) =>
        /\ profile.outcome = "ok"
        /\ profile.workflow_type = "UNKNOWN"
        /\ profile.risk_level = "MEDIUM"
        /\ profile.plan = <<"validate", "analyse", "fix", "security_scan", "review">>
                            \o (IF pr_create THEN <<"resolve">> ELSE <<>>)
        /\ profile.plan # <<>>

\* C26 witness: unparsable content was classified with a change request asked for.
C26_Witness ==
    /\ profile.outcome = "ok"
    /\ workflow.kind = "yaml_error"
    /\ pr_create

\* C27: for a classified mapping the level is HIGH exactly when the score is
\* at least 50, MEDIUM exactly when it is at least 20 and below 50, LOW
\* otherwise, the score being 30 per production job, 20 per cloud step, 25
\* per infrastructure step, 10 per secret step, 15 per database step and 5
\* per container step.
C27_RiskLevelThresholds ==
    (profile.outcome = "ok" /\ workflow.kind = "mapping") =>
        LET score == 30 * workflow.prod_jobs + 20 * workflow.cloud
                       + 25 * workflow.iac + 10 * workflow.secret
                       + 15 * workflow.db + 5 * workflow.container
        IN  /\ profile.risk_level = "HIGH" <=> score >= 50
            /\ profile.risk_level = "MEDIUM" <=> (score >= 20 /\ score < 50)
            /\ profile.risk_level = "LOW" <=> score < 20

\* C27 witness: one production job and one cloud step, a score of exactly 50.
C27_Witness ==
    /\ profile.outcome = "ok"
    /\ workflow.kind = "mapping"
    /\ workflow.prod_jobs = 1 /\ workflow.cloud = 1
    /\ workflow.iac = 0 /\ workflow.secret = 0 /\ workflow.db = 0
    /\ workflow.container = 0
    /\ profile.risk_level = RISK_LEVEL_HIGH

\* C28 (as claimed): what the artifacts row holds for a saved content is that
\* content unchanged, and no other content is stored as the same text.
C28_ArtifactReadReturnsContent ==
    stored \notin {Pending, NotStored} =>
        /\ stored = content
        /\ \A other \in Contents :
              BaseService_save_artifact(other, "ok") = stored => other = content

\* C29: the loop makes at most Len(plan) EXECUTING passes, and a run that
\* entered the graph reaches the end of the loop.
C29_LoopTerminates ==
    /\ [](Len(execution_log) <= Len(plan))
    /\ (pc = "plan") ~> (pc = "finish")

\* C29 witness: the loop ended after a pass for every slot of the longest
\* plan, with skipped, completed and failed passes among them.
C29_Witness ==
    /\ pc = "finish"
    /\ Len(plan) = 7
    /\ Len(execution_log) = 7
    /\ Entries = {"skipped", "completed", "FAILED"}

\* C30 (as claimed): no terminal lifecycle call is attempted before the loop
\* has ended, and once run() is over after a successful start_run exactly
\* one was attempted: complete_run if no error was set, fail_run otherwise.
C30_ExactlyOneTerminalCall ==
    /\ pc \in {"plan", "decide", "execute"} => Terminal = <<>>
    /\ (pc \in {"returned", "escaped"} /\ planResult.ingest # "none") =>
          /\ Len(Terminal) = 1
          /\ Terminal[1] = IF RunFailed THEN "fail_run" ELSE "complete_run"

====
